---- MODULE Spec2Model ----
(***************************************************************************)
(* A model of three components of the ocl crate:                           *)
(*   - MappedMem          (src/src/types/structs.rs)                       *)
(*   - ProgramBuilder     (src/src/standard/program.rs)                    *)
(*   - ContextProperties  (src/src/types/structs.rs)                       *)
(* Text is modelled as sequences of byte values, so that formatting,       *)
(* joining and the NUL check of CString::new are computed, not assumed.    *)
(***************************************************************************)
EXTENDS Integers, Sequences, FiniteSets, TLC

VARIABLES
    \* ---- MappedMem<T> fields (structs.rs:57-65)
    ptr, len, buffer, queue, unmap_event, callback_is_set, is_unmapped,
    \* ---- build configuration of the crate
    future_event_callbacks,   \* cfg!(feature = "future_event_callbacks")
    debug_assertions,         \* whether debug_assert! is compiled in
    \* ---- what the region's owner and the native layer observe
    mm_status,                \* "live" | "dropped" | "panicked"
    mm_ret,                   \* outcome of the last MappedMem operation
    mm_calls,                 \* number of unmap() calls made so far
    enqueue_calls,            \* calls of ::enqueue_unmap_mem_object so far
    enqueue_oks,              \* ... of which succeeded
    last_enqueue,             \* the arguments of the latest such call
    ev_refcount,              \* reference count of the event made by unmap
    retain_calls,             \* number of ::retain_event calls
    callbacks,                \* triggers registered with Event::set_callback
    enew_slot,                \* the caller's out-event slot: "null" | "new_event"
    mm_ok_unmaps,             \* history: unmap() calls that returned Ok
    \* ---- ProgramBuilder fields (program.rs:63-71)
    options, src_file_names, src_files, device_spec,
    \* ---- what the builder's caller and the native layer observe
    pb_status,                \* "live" | "panicked"
    pb_ret,                   \* outcome of the last ProgramBuilder operation
    \* ---- ContextProperties: the HashMap it wraps (structs.rs:361), as the
    \* set of its (key, value) entries
    props,
    \* ---- what the list's caller observes
    cp_status,                \* "live" | "panicked"
    cp_ret,                   \* outcome of the last ContextProperties operation
    last_set                  \* history: per key, the value of the latest set

mmvars == <<ptr, len, buffer, queue, unmap_event, callback_is_set, is_unmapped,
            future_event_callbacks, debug_assertions, mm_status, mm_ret,
            mm_calls, enqueue_calls, enqueue_oks, last_enqueue, ev_refcount,
            retain_calls, callbacks, enew_slot, mm_ok_unmaps>>
pbvars == <<options, src_file_names, src_files, device_spec, pb_status, pb_ret>>
cpvars == <<props, cp_status, cp_ret, last_set>>
vars == <<mmvars, pbvars, cpvars>>

(***************************************************************************)
(* Bounds of the model.                                                    *)
(***************************************************************************)
MaxLen == 2          \* largest element count of a mapped region
MaxUnmapCalls == 3   \* unmap() calls tried on one region
MaxAdds == 3         \* add operations (directives + source files) on one builder

(***************************************************************************)
(* Option<T>                                                               *)
(***************************************************************************)
None == [some |-> FALSE, v |-> "none"]
Some(x) == [some |-> TRUE, v |-> x]
is_some(o) == o.some
is_none(o) == ~o.some

(***************************************************************************)
(* MappedMem                                                               *)
(***************************************************************************)
Pointers == {4096}               \* non-null host addresses handed to new()
Queues == {"q_other"}             \* queues a caller may pass to unmap
NoEnqueue == [queue |-> "none", buffer |-> "none", ptr |-> 0, wait |-> FALSE,
              event |-> FALSE]
NoCall == [op |-> "none", result |-> "none", err |-> "none", view |-> <<>>,
           enew |-> FALSE]
Ret(op, result, err) ==
    [op |-> op, result |-> result, err |-> err, view |-> <<>>, enew |-> FALSE]

\* The addresses of the slice [ptr, ptr + len) built by slice::from_raw_parts.
from_raw_parts(p, n) == [i \in 1..n |-> p + (i - 1)]

\* MappedMem::new: the state right after construction.
MappedMem_new(p, n, uev, buf, q) ==
    /\ p /= 0                       \* assert!(!ptr.is_null())
    /\ ptr = p
    /\ len = n
    /\ buffer = buf
    /\ queue = q
    /\ unmap_event = uev
    /\ callback_is_set = FALSE
    /\ is_unmapped = FALSE

MMObserversInit ==
    /\ mm_status = "live"
    /\ mm_ret = NoCall
    /\ mm_calls = 0
    /\ enqueue_calls = 0
    /\ enqueue_oks = 0
    /\ last_enqueue = NoEnqueue
    /\ ev_refcount = 0
    /\ retain_calls = 0
    /\ callbacks = <<>>
    /\ enew_slot = "null"
    /\ mm_ok_unmaps = 0

\* mapped_mem_set_unmapped: the flag is set, nothing else is touched.
set_unmapped_flag_cleared == FALSE
set_unmapped_flag == TRUE
mapped_mem_set_unmapped ==
    /\ mm_status = "live"
    /\ is_unmapped' = set_unmapped_flag
    /\ mm_ret' = Ret("mapped_mem_set_unmapped", "ok", "none")
    /\ UNCHANGED <<ptr, len, buffer, queue, unmap_event, callback_is_set,
                   future_event_callbacks, debug_assertions, mm_status, mm_calls,
                   enqueue_calls, enqueue_oks, last_enqueue, ev_refcount, retain_calls, callbacks, enew_slot,
                   mm_ok_unmaps>>

\* `if !self.is_unmapped` (structs.rs:93): unmap proceeds only on a mapped region.
unmap_allowed_always(flag) == TRUE
unmap_allowed(flag) == ~flag

\* structs.rs:94-98: an event placeholder is made when the region has a
\* completion event or the caller passed an out-event slot.
wants_new_event_always(uev, enew) == TRUE
wants_new_event(uev, enew) == is_some(uev) \/ enew

\* structs.rs:100: queue.unwrap_or(&self.queue)
unwrap_or_value(o, default) == o.v
unwrap_or(o, default) == IF is_some(o) THEN o.v ELSE default

\* `self.is_unmapped = true` once the enqueue has returned Ok (structs.rs:103).
is_unmapped_after_enqueue_unset == FALSE
is_unmapped_after_enqueue == TRUE

\* MappedMem::register_event_trigger (structs.rs:136-155), entered with the
\* flag already set. cb_ok is the outcome of Event::set_callback.
register_event_trigger_unguarded(flag, uev, cb_set, cb_ok) ==
    IF debug_assertions /\ ~(flag /\ is_some(uev)) THEN "panic"
    ELSE IF ~cb_ok THEN "native_err"
    ELSE "ok"
register_event_trigger(flag, uev, cb_set, cb_ok) ==
    IF debug_assertions /\ ~(flag /\ is_some(uev)) THEN "panic"
    ELSE IF cb_set THEN "already_set"
    ELSE IF ~cb_ok THEN "native_err"
    ELSE "ok"

\* MappedMem::unmap (structs.rs:88-133) as a function of the region's state,
\* the arguments (q_opt, ewait, enew) and the outcomes of the native calls:
\*   enq_ok  ::enqueue_unmap_mem_object     val_ok  Event::validate
\*   ret_ok  ::retain_event                 slot_ok ClEventPtrNew::ptr_mut_ptr_new
\*   cb_ok   Event::set_callback
\* The result is the state after the call and what the call returned.
unmap_outcome(q_opt, ewait, enew, enq_ok, val_ok, ret_ok, slot_ok, cb_ok) ==
    LET same == [is_unmapped |-> is_unmapped, callback_is_set |-> callback_is_set,
                 enqueue_calls |-> enqueue_calls, enqueue_oks |-> enqueue_oks,
                 last_enqueue |-> last_enqueue, ev_refcount |-> ev_refcount,
                 retain_calls |-> retain_calls, callbacks |-> callbacks,
                 enew_slot |-> enew_slot, result |-> "ok", err |-> "none"]
        want == wants_new_event(unmap_event, enew)
        call == [queue |-> unwrap_or(q_opt, queue), buffer |-> buffer, ptr |-> ptr,
                 wait |-> ewait, event |-> want]
        logged == [same EXCEPT !.last_enqueue = call,             \* line 100
                               !.enqueue_calls = @ + 1,
                               !.enqueue_oks = IF enq_ok THEN @ + 1 ELSE @]
        set == [logged EXCEPT !.is_unmapped = is_unmapped_after_enqueue] \* line 103
        made == [set EXCEPT !.ev_refcount = 1]                    \* line 106
        retained == [made EXCEPT !.retain_calls = @ + 1,          \* line 112
                                 !.ev_refcount = IF ret_ok THEN 2 ELSE 1]
        stored == IF slot_ok THEN [retained EXCEPT !.enew_slot = "new_event"]
                  ELSE retained                                   \* lines 114-116
        pre == IF enew THEN stored ELSE made
        trig == register_event_trigger(pre.is_unmapped, unmap_event,
                                       pre.callback_is_set, cb_ok)
        \* `new_event` goes out of scope: its reference is released.
        released(st) == [st EXCEPT !.ev_refcount = @ - 1]
    IN  IF ~unmap_allowed(is_unmapped)
            THEN [same EXCEPT !.result = "err", !.err = "Already unmapped"]
        ELSE IF ~enq_ok
            THEN [logged EXCEPT !.result = "err", !.err = "enqueue_unmap_mem_object"]
        ELSE IF ~want THEN set
        ELSE IF ~val_ok
            THEN [set EXCEPT !.result = "err", !.err = "Event::validate"]
        ELSE IF enew /\ ~ret_ok
            THEN [released(retained) EXCEPT !.result = "err", !.err = "retain_event"]
        ELSE IF ~future_event_callbacks THEN released(pre)
        ELSE IF trig = "panic"
            THEN [released(pre) EXCEPT !.result = "panic", !.err = "debug_assert"]
        ELSE IF trig = "already_set"
            THEN [released(pre) EXCEPT !.result = "err", !.err = "Callback already set."]
        ELSE IF trig = "native_err"
            THEN [released(pre) EXCEPT !.result = "err", !.err = "set_callback"]
        ELSE [pre EXCEPT !.callback_is_set = TRUE,                \* line 150
                         !.callbacks = Append(@, [event |-> "new_event",
                                                  user_data |-> unmap_event])]

\* The assignments a call of unmap makes to the region and to the native layer.
unmap_effect(o) ==
    /\ is_unmapped' = o.is_unmapped
    /\ callback_is_set' = o.callback_is_set
    /\ enqueue_calls' = o.enqueue_calls
    /\ enqueue_oks' = o.enqueue_oks
    /\ last_enqueue' = o.last_enqueue
    /\ ev_refcount' = o.ev_refcount
    /\ retain_calls' = o.retain_calls
    /\ callbacks' = o.callbacks
    /\ enew_slot' = o.enew_slot
    /\ UNCHANGED <<ptr, len, buffer, queue, unmap_event, future_event_callbacks,
                   debug_assertions>>

\* A caller invokes unmap(queue, ewait_opt, enew_opt).
unmap(q_opt, ewait, enew, enq_ok, val_ok, ret_ok, slot_ok, cb_ok) ==
    LET o == unmap_outcome(q_opt, ewait, enew, enq_ok, val_ok, ret_ok, slot_ok, cb_ok)
    IN  /\ mm_status = "live"
        /\ mm_calls < MaxUnmapCalls
        /\ mm_calls' = mm_calls + 1
        /\ unmap_effect(o)
        /\ mm_ret' = [Ret("unmap", o.result, o.err) EXCEPT !.enew = enew]
        /\ mm_ok_unmaps' = IF o.result = "ok" THEN mm_ok_unmaps + 1 ELSE mm_ok_unmaps
        /\ mm_status' = IF o.result = "panic" THEN "panicked" ELSE "live"

\* assert!(!self.is_unmapped, ...) of deref / deref_mut (structs.rs:175, 183).
slice_accessible_always(flag) == TRUE
slice_accessible(flag) == ~flag

slice_access(op) ==
    /\ mm_status = "live"
    /\ IF slice_accessible(is_unmapped)
          THEN /\ mm_ret' = [Ret(op, "ok", "none") EXCEPT
                                 !.view = from_raw_parts(ptr, len)]
               /\ mm_status' = "live"
          ELSE /\ mm_ret' = Ret(op, "panic", "Mapped memory inaccessible")
               /\ mm_status' = "panicked"
    /\ UNCHANGED <<ptr, len, buffer, queue, unmap_event, callback_is_set, is_unmapped,
                   future_event_callbacks, debug_assertions, mm_calls, enqueue_calls, enqueue_oks, last_enqueue,
                   ev_refcount, retain_calls, callbacks, enew_slot, mm_ok_unmaps>>

\* impl Deref (structs.rs:171-179) and impl DerefMut (structs.rs:181-187).
deref == slice_access("deref")
deref_mut == slice_access("deref_mut")

\* impl Drop (structs.rs:189-202): with the feature, a mapped region is
\* unmapped on its own queue and the result is dropped by .ok(); without it,
\* dropping a mapped region fails the assertion.
drop(enq_ok, val_ok, cb_ok) ==
    LET o == unmap_outcome(None, FALSE, FALSE, enq_ok, val_ok, FALSE, FALSE, cb_ok)
    IN  /\ mm_status = "live"
        /\ UNCHANGED <<mm_calls, mm_ok_unmaps>>
        /\ IF is_unmapped
              THEN /\ mm_status' = "dropped"
                   /\ mm_ret' = Ret("drop", "ok", "none")
                   /\ UNCHANGED <<ptr, len, buffer, queue, unmap_event, callback_is_set,
                                  is_unmapped, future_event_callbacks, debug_assertions,
                                  enqueue_calls, enqueue_oks, last_enqueue, ev_refcount, retain_calls, callbacks,
                                  enew_slot>>
           ELSE IF future_event_callbacks
              THEN /\ unmap_effect(o)
                   /\ mm_status' = IF o.result = "panic" THEN "panicked" ELSE "dropped"
                   /\ mm_ret' = Ret("drop", IF o.result = "panic" THEN "panic" ELSE "ok",
                                    o.err)
           ELSE /\ mm_status' = "panicked"
                /\ mm_ret' = Ret("drop", "panic", "drop called while still mapped")
                /\ UNCHANGED <<ptr, len, buffer, queue, unmap_event, callback_is_set,
                               is_unmapped, future_event_callbacks, debug_assertions,
                               enqueue_calls, enqueue_oks, last_enqueue, ev_refcount, retain_calls, callbacks,
                               enew_slot>>

(***************************************************************************)
(* Text: a String / Vec<u8> is a sequence of byte values.                  *)
(***************************************************************************)
OkR(v) == [ok |-> TRUE, val |-> v, err |-> "none"]
ErrR(e) == [ok |-> FALSE, val |-> <<>>, err |-> e]

\* CString::new: the bytes are rejected when any of them is NUL.
contains_nul(bytes) == \E i \in 1..Len(bytes) : bytes[i] = 0
CString_new(bytes) == IF contains_nul(bytes) THEN ErrR("NulError") ELSE OkR(bytes)

\* i32::to_string: decimal digits, with a leading '-' for negative values.
RECURSIVE digits(_)
digits(n) == IF n < 10 THEN <<48 + n>> ELSE digits(n \div 10) \o <<48 + (n % 10)>>
to_string(n) == IF n < 0 THEN <<45>> \o digits(-n) ELSE digits(n)

\* [String]::join(sep)
RECURSIVE join(_, _)
join(strs, sep) ==
    IF Len(strs) = 0 THEN <<>>
    ELSE IF Len(strs) = 1 THEN strs[1]
    ELSE strs[1] \o sep \o join(Tail(strs), sep)

(***************************************************************************)
(* BuildOpt (program.rs:28-58)                                             *)
(***************************************************************************)
CmplrDefine(ident, val) == [kind |-> "CmplrDefine", ident |-> ident, val |-> val]
CmplrInclDir(path) == [kind |-> "CmplrInclDir", ident |-> <<>>, val |-> path]
CmplrOther(text) == [kind |-> "CmplrOther", ident |-> <<>>, val |-> text]
IncludeDefine(ident, val) == [kind |-> "IncludeDefine", ident |-> ident, val |-> val]
IncludeCore(text) == [kind |-> "IncludeCore", ident |-> <<>>, val |-> text]
IncludeRawEof(text) == [kind |-> "IncludeRawEof", ident |-> <<>>, val |-> text]

\* BuildOpt::cmplr_def, BuildOpt::cmplr_opt
BuildOpt_cmplr_def(ident, val) == CmplrDefine(ident, to_string(val))
BuildOpt_cmplr_opt(opt) == CmplrOther(opt)

(***************************************************************************)
(* The inputs the model draws from.                                        *)
(***************************************************************************)
DefNames == {<<78>>}                           \* "N"
DefVals == {-12, 0}
CmplrOpts == {<<45, 119>>, <<45, 0>>}          \* "-w", "-\0"
SrcTexts == {<<101>>, <<0>>}                   \* "e", "\0"
BuildOpts == {CmplrInclDir(<<100>>),           \* -Id
              IncludeDefine(<<88>>, <<49>>),   \* #define X  1
              IncludeCore(<<99>>),             \* "c"
              IncludeCore(<<99, 0>>)}          \* "c\0"

\* The files on disk. Opening "missing.cl" fails; "dir" opens but cannot be
\* read; "nul.cl" holds a NUL byte.
Paths == {"a.cl", "b.cl", "c.cl", "nul.cl", "missing.cl", "dir"}
FileSystem ==
    [p \in Paths |->
        CASE p = "a.cl" -> [kind |-> "file", bytes |-> <<97>>]
          [] p = "b.cl" -> [kind |-> "file", bytes |-> <<98>>]
          [] p = "c.cl" -> [kind |-> "file", bytes |-> <<99, 99>>]
          [] p = "nul.cl" -> [kind |-> "file", bytes |-> <<110, 0, 110>>]
          [] p = "missing.cl" -> [kind |-> "missing", bytes |-> <<>>]
          [] p = "dir" -> [kind |-> "unreadable", bytes |-> <<>>]]
File_open(p) == IF FileSystem[p].kind = "missing" THEN ErrR("File::open") ELSE OkR(p)
read_to_end(p) ==
    IF FileSystem[p].kind = "file" THEN OkR(FileSystem[p].bytes) ELSE ErrR("read_to_end")

\* DeviceSpecifier and its resolution against the context's platform.
PlatformDevices == <<"dev0", "dev1">>
DeviceSpecifiers == {[kind |-> "All", arg |-> <<>>],
                     [kind |-> "List", arg |-> <<>>],
                     [kind |-> "Indices", arg |-> <<7>>]}
to_device_list(ds) ==
    CASE ds.kind = "All" -> OkR(PlatformDevices)
      [] ds.kind = "List" -> OkR(ds.arg)
      [] ds.kind = "Indices" ->
            IF \A i \in 1..Len(ds.arg) : ds.arg[i] < Len(PlatformDevices)
                THEN OkR([i \in 1..Len(ds.arg) |-> PlatformDevices[ds.arg[i] + 1]])
                ELSE ErrR("device index out of range")

(***************************************************************************)
(* ProgramBuilder (program.rs:63-345)                                      *)
(***************************************************************************)
\* ProgramBuilder::new
ProgramBuilder_new ==
    /\ options = <<>>
    /\ src_file_names = <<>>
    /\ src_files = <<>>
    /\ device_spec = None

\* format!("#define {}  {}\n", ident, val)
format_define(ident, val) ==
    <<35, 100, 101, 102, 105, 110, 101, 32>> \o ident \o <<32, 32>> \o val \o <<10>>

\* The block an option adds to the head of the source (program.rs:252-260);
\* None for the options the match skips.
include_text_any(option) ==
    CASE option.kind = "IncludeDefine" -> Some(format_define(option.ident, option.val))
      [] option.kind \in {"IncludeCore", "IncludeRawEof"} -> Some(option.val)
      [] OTHER -> None
include_text(option) ==
    CASE option.kind = "IncludeDefine" -> Some(format_define(option.ident, option.val))
      [] option.kind = "IncludeCore" -> Some(option.val)
      [] OTHER -> None

\* The block an option adds to the end of the source (program.rs:274-279).
include_eof_text(option) ==
    CASE option.kind = "IncludeRawEof" -> Some(option.val)
      [] OTHER -> None

\* The loops of get_kernel_includes / get_kernel_includes_eof: each selected
\* option is turned into a CString and pushed; the first failure is returned.
RECURSIVE includes_loop(_, _, _)
includes_loop(opts, i, strings) ==
    IF i > Len(opts) THEN OkR(strings)
    ELSE LET t == include_text(opts[i])
             c == CString_new(t.v)
         IN  IF is_none(t) THEN includes_loop(opts, i + 1, strings)
             ELSE IF ~c.ok THEN ErrR(c.err)
             ELSE includes_loop(opts, i + 1, Append(strings, c.val))

RECURSIVE includes_eof_loop(_, _, _)
includes_eof_loop(opts, i, strings) ==
    IF i > Len(opts) THEN OkR(strings)
    ELSE LET t == include_eof_text(opts[i])
             c == CString_new(t.v)
         IN  IF is_none(t) THEN includes_eof_loop(opts, i + 1, strings)
             ELSE IF ~c.ok THEN ErrR(c.err)
             ELSE includes_eof_loop(opts, i + 1, Append(strings, c.val))

\* ProgramBuilder::get_kernel_includes (program.rs:247-265)
get_kernel_includes(opts) ==
    LET first == CString_new(<<10>>)
    IN  IF ~first.ok THEN ErrR(first.err) ELSE includes_loop(opts, 1, <<first.val>>)

\* ProgramBuilder::get_kernel_includes_eof (program.rs:269-283)
get_kernel_includes_eof(opts) ==
    LET first == CString_new(<<10>>)
    IN  IF ~first.ok THEN ErrR(first.err) ELSE includes_eof_loop(opts, 1, <<first.val>>)

\* The token an option adds to the compiler command line (program.rs:293-307).
compiler_token_any(option) ==
    CASE option.kind = "CmplrDefine" ->
            Some(<<45, 68>> \o option.ident \o <<61>> \o option.val)
      [] option.kind = "CmplrInclDir" -> Some(<<45, 73>> \o option.val)
      [] OTHER -> Some(option.val)
compiler_token(option) ==
    CASE option.kind = "CmplrDefine" ->
            Some(<<45, 68>> \o option.ident \o <<61>> \o option.val)
      [] option.kind = "CmplrInclDir" -> Some(<<45, 73>> \o option.val)
      [] option.kind = "CmplrOther" -> Some(option.val)
      [] OTHER -> None

RECURSIVE compiler_options_loop(_, _, _)
compiler_options_loop(opts, i, toks) ==
    IF i > Len(opts) THEN toks
    ELSE LET t == compiler_token(opts[i])
         IN  compiler_options_loop(opts, i + 1,
                                   IF is_some(t) THEN Append(toks, t.v) ELSE toks)

\* ProgramBuilder::get_compiler_options (program.rs:287-311)
get_compiler_options(opts) ==
    CString_new(join(compiler_options_loop(opts, 1, << <<32>> >>), <<32>>))

\* `if src_file_history.contains(srcpath) { continue; }` (program.rs:330)
already_read_never(history, srcpath) == FALSE
already_read(history, srcpath) == srcpath \in history

\* src_file_history.insert(srcpath.clone()) (program.rs:331)
history_insert_dropped(history, srcpath) == history
history_insert(history, srcpath) == history \cup {srcpath}

\* self.src_files.iter().rev() (program.rs:327): the pass starts at the file
\* added last.
rev_forward(files) == files
rev(files) == [i \in 1..Len(files) |-> files[Len(files) - i + 1]]

\* The file loop of get_src_strings (program.rs:327-339) over the paths in
\* the order visited. st is the state of the pass: the strings pushed so far,
\* the history set, and the calls of File::open and read_to_end made so far.
RECURSIVE src_files_loop(_, _, _)
src_files_loop(visited, i, st) ==
    IF i > Len(visited) THEN [st EXCEPT !.ok = TRUE]
    ELSE LET srcpath == visited[i]
             seen == [st EXCEPT !.history = history_insert(@, srcpath)]
             h == File_open(srcpath)
             opened == [seen EXCEPT !.opened = Append(@, srcpath)]
             r == read_to_end(srcpath)
             was_read == [opened EXCEPT !.read = Append(@, srcpath)]
             c == CString_new(r.val)
         IN  IF already_read(st.history, srcpath)
                 THEN src_files_loop(visited, i + 1, st)
             ELSE IF ~h.ok THEN [opened EXCEPT !.ok = FALSE, !.err = h.err]
             ELSE IF ~r.ok THEN [was_read EXCEPT !.ok = FALSE, !.err = r.err]
             ELSE IF ~c.ok THEN [was_read EXCEPT !.ok = FALSE, !.err = c.err]
             ELSE src_files_loop(visited, i + 1,
                                 [was_read EXCEPT !.val = Append(@, c.val)])

\* ProgramBuilder::get_src_strings (program.rs:319-344). The result carries,
\* besides Ok(strings) / Err, the file-system calls the pass made.
get_src_strings(opts, files) ==
    LET head == get_kernel_includes(opts)
        start == [ok |-> TRUE, val |-> head.val, err |-> "none", history |-> {},
                  opened |-> <<>>, read |-> <<>>]
        body == src_files_loop(rev(files), 1, start)
        tail == get_kernel_includes_eof(opts)
    IN  IF ~head.ok THEN [start EXCEPT !.ok = FALSE, !.val = <<>>, !.err = head.err]
        ELSE IF ~body.ok THEN [body EXCEPT !.val = <<>>]
        ELSE IF ~tail.ok THEN [body EXCEPT !.ok = FALSE, !.val = <<>>, !.err = tail.err]
        ELSE [body EXCEPT !.val = @ \o tail.val]

\* What a ProgramBuilder call hands back, and the calls it made on the file
\* system and on the native layer (core::create_build_program).
PbRet(op, result, err) ==
    [op |-> op, result |-> result, err |-> err, val |-> <<>>, opened |-> <<>>,
     read |-> <<>>, native |-> <<>>, program |-> None]
PbNoCall == PbRet("none", "none", "none")

\* `if device_list.len() == 0` (program.rs:117)
no_devices_never(device_list) == FALSE
no_devices(device_list) == Len(device_list) = 0

\* core::create_build_program, the native build entry point, called by
\* Program::new (program.rs:388-398). native_ok is the driver's verdict.
Program_new(src_strings, cmplr_opts, device_ids, native_ok) ==
    [PbRet("build", IF native_ok THEN "ok" ELSE "err",
           IF native_ok THEN "none" ELSE "create_build_program")
        EXCEPT !.native = << [src_strings |-> src_strings, cmplr_opts |-> cmplr_opts,
                              devices |-> device_ids] >>,
               !.program = IF native_ok
                              THEN Some([obj_core |-> "program", devices |-> device_ids])
                              ELSE None]

\* The sources and options are assembled before Program::new is entered
\* (program.rs:121-125); either failing returns the error from build.
assemble_unchecked(src, co, device_list, native_ok) ==
    Program_new(src.val, co.val, device_list, native_ok)
assemble(src, co, device_list, native_ok) ==
    IF ~src.ok
        THEN [PbRet("build", "err", src.err) EXCEPT !.opened = src.opened,
                                                    !.read = src.read]
    ELSE IF ~co.ok
        THEN [PbRet("build", "err", co.err) EXCEPT !.opened = src.opened,
                                                   !.read = src.read]
    ELSE [Program_new(src.val, co.val, device_list, native_ok)
            EXCEPT !.opened = src.opened, !.read = src.read]

\* ProgramBuilder::build (program.rs:107-126)
build_outcome(opts, files, spec, native_ok) ==
    LET dl == IF is_some(spec) THEN to_device_list(spec.v) ELSE OkR(<<>>)
    IN  IF ~dl.ok THEN PbRet("build", "err", dl.err)
        ELSE IF no_devices(dl.val) THEN PbRet("build", "err", "No devices found.")
        ELSE assemble(get_src_strings(opts, files), get_compiler_options(opts),
                      dl.val, native_ok)

\* The builder-style calls (cmplr_def, cmplr_opt, bo, src_file, src, devices)
\* made on one builder are bounded by MaxAdds.
Adds == Len(options) + Len(src_files) + (IF is_some(device_spec) THEN 1 ELSE 0)
CanAdd == pb_status = "live" /\ Adds < MaxAdds

\* Vec::push on self.options
push_option_front(opts, option) == <<option>> \o opts
push_option(opts, option) == Append(opts, option)
\* Vec::push on self.src_files
push_file(files, path) == Append(files, path)

\* ProgramBuilder::cmplr_def (program.rs:130-133)
cmplr_def(name, val) ==
    /\ CanAdd
    /\ options' = push_option(options, BuildOpt_cmplr_def(name, val))
    /\ pb_ret' = PbNoCall
    /\ UNCHANGED <<src_file_names, src_files, device_spec, pb_status>>

\* ProgramBuilder::cmplr_opt (program.rs:137-140)
cmplr_opt(co) ==
    /\ CanAdd
    /\ options' = push_option(options, BuildOpt_cmplr_opt(co))
    /\ pb_ret' = PbNoCall
    /\ UNCHANGED <<src_file_names, src_files, device_spec, pb_status>>

\* ProgramBuilder::bo (program.rs:143-146)
bo(option) ==
    /\ CanAdd
    /\ options' = push_option(options, option)
    /\ pb_ret' = PbNoCall
    /\ UNCHANGED <<src_file_names, src_files, device_spec, pb_status>>

\* ProgramBuilder::src_file (program.rs:155-158)
src_file(file_path) ==
    /\ CanAdd
    /\ src_files' = push_file(src_files, file_path)
    /\ pb_ret' = PbNoCall
    /\ UNCHANGED <<options, src_file_names, device_spec, pb_status>>

\* ProgramBuilder::src (program.rs:161-165)
src(text) ==
    /\ CanAdd
    /\ options' = push_option(options, IncludeRawEof(text))
    /\ pb_ret' = PbNoCall
    /\ UNCHANGED <<src_file_names, src_files, device_spec, pb_status>>

\* assert!(self.device_spec.is_none(), ...) (program.rs:203)
may_set_devices_always(spec) == TRUE
may_set_devices(spec) == is_none(spec)

\* ProgramBuilder::devices (program.rs:200-206). The builder is taken by
\* value: a failed assertion unwinds out of the call and the builder is gone.
devices(ds) ==
    /\ CanAdd
    /\ IF may_set_devices(device_spec)
          THEN /\ device_spec' = Some(ds)
               /\ pb_ret' = PbRet("devices", "ok", "none")
               /\ pb_status' = "live"
          ELSE /\ device_spec' = device_spec
               /\ pb_ret' = PbRet("devices", "panic", "Devices already specified")
               /\ pb_status' = "panicked"
    /\ UNCHANGED <<options, src_file_names, src_files>>

\* ProgramBuilder::get_src_file_names (program.rs:225-227)
get_src_file_names ==
    /\ pb_status = "live"
    /\ pb_ret' = [PbRet("get_src_file_names", "ok", "none") EXCEPT !.val = src_file_names]
    /\ UNCHANGED <<options, src_file_names, src_files, device_spec, pb_status>>

\* A caller invokes get_src_strings().
call_get_src_strings ==
    LET r == get_src_strings(options, src_files)
    IN  /\ pb_status = "live"
        /\ pb_ret' = [PbRet("get_src_strings", IF r.ok THEN "ok" ELSE "err", r.err)
                        EXCEPT !.val = r.val, !.opened = r.opened, !.read = r.read]
        /\ UNCHANGED <<options, src_file_names, src_files, device_spec, pb_status>>

\* A caller invokes get_compiler_options().
call_get_compiler_options ==
    LET r == get_compiler_options(options)
    IN  /\ pb_status = "live"
        /\ pb_ret' = [PbRet("get_compiler_options", IF r.ok THEN "ok" ELSE "err", r.err)
                        EXCEPT !.val = r.val]
        /\ UNCHANGED <<options, src_file_names, src_files, device_spec, pb_status>>

\* A caller invokes build(context).
build(native_ok) ==
    /\ pb_status = "live"
    /\ pb_ret' = build_outcome(options, src_files, device_spec, native_ok)
    /\ UNCHANGED <<options, src_file_names, src_files, device_spec, pb_status>>

(***************************************************************************)
(* ContextProperties (structs.rs:334-518)                                  *)
(***************************************************************************)
\* The keys the setters use (enum ContextProperty) and the variants of
\* ContextPropertyValue (structs.rs:335-352) no setter accepts.
SupportedKinds == {"Platform", "InteropUserSync", "GlContextKhr", "CglSharegroupKhr"}
PlaceholderVariants == {"D3d10DeviceKhr", "EglDisplayKhr", "GlxDisplayKhr", "WglHdcKhr",
                        "AdapterD3d9Khr", "AdapterD3d9exKhr", "AdapterDxvaKhr",
                        "D3d11DeviceKhr"}

\* A ContextPropertyValue: the variant with its payload, a handle / pointer
\* (ptr) or a bool (flag).
Value(variant, p, f) == [variant |-> variant, ptr |-> p, flag |-> f]
PlatformValue(platform) == Value("Platform", platform, FALSE)
InteropUserSyncValue(sync) == Value("InteropUserSync", 0, sync)
GlContextKhrValue(gl_ctx) == Value("GlContextKhr", gl_ctx, FALSE)
CglSharegroupKhrValue(gl_sharegroup) == Value("CglSharegroupKhr", gl_sharegroup, FALSE)

\* The inputs the model draws from.
PlatformIds == {101, 102}
GlContexts == {7, 8}
Sharegroups == {201, 202}
PropertyValues ==
    {PlatformValue(x) : x \in PlatformIds} \cup {InteropUserSyncValue(b) : b \in BOOLEAN}
    \cup {GlContextKhrValue(x) : x \in GlContexts}
    \cup {CglSharegroupKhrValue(x) : x \in Sharegroups}
    \cup {Value(v, 0, FALSE) : v \in PlaceholderVariants}

\* HashMap::insert: the entry of the key, if any, is replaced.
insert_keeping_old(map, k, v) == map \cup {[key |-> k, value |-> v]}
insert(map, k, v) == {e \in map : e.key /= k} \cup {[key |-> k, value |-> v]}

\* HashMap::get
get(map, k) ==
    IF \E e \in map : e.key = k
        THEN Some((CHOOSE e \in map : e.key = k).value)
        ELSE None

\* ContextProperties::new
ContextProperties_new == props = {}

CpNoArg == [key |-> "none", value |-> Value("none", 0, FALSE)]
CpRet(op, result, arg) ==
    [op |-> op, result |-> result, arg |-> arg, old |-> None, got |-> None,
     raw |-> <<>>]
CpNoCall == CpRet("none", "none", CpNoArg)

\* The key each setter files its value under (structs.rs:404, 410, 415, 421).
platform_key == "Platform"
interop_user_sync_key == "InteropUserSync"
gl_context_key == "GlContextKhr"
cgl_sharegroup_key_swapped == "Platform"
cgl_sharegroup_key == "CglSharegroupKhr"

\* self.0.insert(key, value) made by the call named op.
set_entry(op, k, v) ==
    /\ cp_status = "live"
    /\ props' = insert(props, k, v)
    /\ last_set' = [last_set EXCEPT ![k] = Some(v)]
    /\ cp_ret' = [CpRet(op, "ok", [key |-> k, value |-> v])
                    EXCEPT !.old = get(props, k)]     \* what insert hands back
    /\ UNCHANGED cp_status

\* ContextProperties::set_platform (structs.rs:403-405) and the builder-style
\* platform (structs.rs:370-373), which calls it and returns the list.
set_platform(platform) == set_entry("set_platform", platform_key, PlatformValue(platform))
platform(pl) == set_entry("platform", platform_key, PlatformValue(pl))

\* set_interop_user_sync (structs.rs:409-411), interop_user_sync (377-380)
set_interop_user_sync(sync) ==
    set_entry("set_interop_user_sync", interop_user_sync_key, InteropUserSyncValue(sync))
interop_user_sync(sync) ==
    set_entry("interop_user_sync", interop_user_sync_key, InteropUserSyncValue(sync))

\* set_gl_context (structs.rs:414-416), gl_context (383-386)
set_gl_context(gl_ctx) ==
    set_entry("set_gl_context", gl_context_key, GlContextKhrValue(gl_ctx))
gl_context(gl_ctx) == set_entry("gl_context", gl_context_key, GlContextKhrValue(gl_ctx))

\* set_cgl_sharegroup (structs.rs:420-422), cgl_sharegroup (390-393)
set_cgl_sharegroup(gl_sharegroup) ==
    set_entry("set_cgl_sharegroup", cgl_sharegroup_key,
              CglSharegroupKhrValue(gl_sharegroup))
cgl_sharegroup(gl_sharegroup) ==
    set_entry("cgl_sharegroup", cgl_sharegroup_key, CglSharegroupKhrValue(gl_sharegroup))

\* The match of set_property_value (structs.rs:426-443): the key a variant is
\* inserted under, None for the variants that reach the panic! arm.
key_of_variant_any(prop) == Some(prop.variant)
key_of_variant(prop) ==
    CASE prop.variant = "Platform" -> Some("Platform")
      [] prop.variant = "InteropUserSync" -> Some("InteropUserSync")
      [] prop.variant = "GlContextKhr" -> Some("GlContextKhr")
      [] prop.variant = "CglSharegroupKhr" -> Some("CglSharegroupKhr")
      [] OTHER -> None

\* The value set_property_value inserts: the variant rebuilt around its payload.
rebuilt(prop) ==
    CASE prop.variant = "InteropUserSync" -> InteropUserSyncValue(prop.flag)
      [] OTHER -> Value(prop.variant, prop.ptr, FALSE)

set_value(op, prop) ==
    LET k == key_of_variant(prop)
    IN  /\ cp_status = "live"
        /\ IF is_some(k)
              THEN /\ props' = insert(props, k.v, rebuilt(prop))
                   /\ last_set' = [x \in DOMAIN last_set \cup {k.v} |->
                                      IF x = k.v THEN Some(rebuilt(prop)) ELSE last_set[x]]
                   /\ cp_ret' = [CpRet(op, "ok", [key |-> k.v, value |-> prop])
                                   EXCEPT !.old = get(props, k.v)]
                   /\ UNCHANGED cp_status
              ELSE /\ cp_ret' = CpRet(op, "panic", [key |-> "none", value |-> prop])
                   /\ cp_status' = "panicked"
                   /\ UNCHANGED <<props, last_set>>

\* ContextProperties::set_property_value (structs.rs:425-444) and the
\* builder-style property_value (structs.rs:397-400).
set_property_value(prop) == set_value("set_property_value", prop)
property_value(prop) == set_value("property_value", prop)

\* The typed getters: the value under the key, which must be of the key's
\* variant (structs.rs:447-472).
typed_get(map, k) ==
    LET prop_val == get(map, k)
    IN  IF is_none(prop_val) THEN [result |-> "ok", got |-> None]
        ELSE IF prop_val.v.variant = k
            THEN [result |-> "ok", got |-> Some(prop_val.v.ptr)]
        ELSE [result |-> "panic", got |-> None]

getter(op, k) ==
    LET r == typed_get(props, k)
    IN  /\ cp_status = "live"
        /\ cp_ret' = [CpRet(op, r.result, CpNoArg) EXCEPT !.got = r.got]
        /\ cp_status' = IF r.result = "panic" THEN "panicked" ELSE "live"
        /\ UNCHANGED <<props, last_set>>

\* ContextProperties::get_platform (structs.rs:447-458)
get_platform == getter("get_platform", "Platform")
\* ContextProperties::get_cgl_sharegroup (structs.rs:461-472)
get_cgl_sharegroup == getter("get_cgl_sharegroup", "CglSharegroupKhr")

\* `key.clone() as isize`: the word of a property kind, the value the native
\* headers give it (CL_CONTEXT_PLATFORM = 0x1084, CL_CONTEXT_INTEROP_USER_SYNC =
\* 0x1085, CL_GL_CONTEXT_KHR = 0x2008, CL_CGL_SHAREGROUP_KHR = 0x200C).
ContextProperty_as_isize(k) ==
    CASE k = "Platform" -> 4228
      [] k = "InteropUserSync" -> 4229
      [] k = "GlContextKhr" -> 8200
      [] k = "CglSharegroupKhr" -> 8204

\* `sync as isize`
bool_as_isize(b) == IF b THEN 1 ELSE 0

\* The orders in which HashMap::iter may visit the entries.
IterationOrders(map) ==
    {order \in [1..Cardinality(map) -> map] :
        \A i, j \in 1..Cardinality(map) : order[i] = order[j] => i = j}

\* The loop of to_raw (structs.rs:485-503) over the entries in the order
\* visited: a (kind, value) pair per entry, panic on any other variant.
RECURSIVE to_raw_loop(_, _, _)
to_raw_loop(order, i, props_raw) ==
    IF i > Len(order) THEN [result |-> "ok", raw |-> props_raw]
    ELSE LET key == order[i].key
             val == order[i].value
             kind_word == ContextProperty_as_isize(key)
         IN  CASE val.variant = "Platform" ->
                    to_raw_loop(order, i + 1, props_raw \o <<kind_word, val.ptr>>)
               [] val.variant = "InteropUserSync" ->
                    to_raw_loop(order, i + 1,
                                props_raw \o <<kind_word, bool_as_isize(val.flag)>>)
               [] val.variant = "CglSharegroupKhr" ->
                    to_raw_loop(order, i + 1, props_raw \o <<kind_word, val.ptr>>)
               [] OTHER -> [result |-> "panic", raw |-> <<>>]

\* ContextProperties::to_raw (structs.rs:480-511)
to_raw_outcome(order) ==
    LET body == to_raw_loop(order, 1, <<>>)
    IN  IF body.result = "panic" THEN body
        ELSE [body EXCEPT !.raw = Append(@, 0)]                   \* line 506

\* A caller invokes to_raw(), or into() (structs.rs:514-518), which calls it.
to_raw(order) ==
    LET r == to_raw_outcome(order)
    IN  /\ cp_status = "live"
        /\ cp_ret' = [CpRet("to_raw", r.result, CpNoArg) EXCEPT !.raw = r.raw]
        /\ cp_status' = IF r.result = "panic" THEN "panicked" ELSE "live"
        /\ UNCHANGED <<props, last_set>>

(***************************************************************************)
(* Specifications                                                          *)
(***************************************************************************)
\* A region as MappedMem::new returns it, for every construction the model
\* draws, under either build of the crate.
ConstructedMappedMem ==
    /\ \E p \in Pointers, n \in 0..MaxLen, uev \in {None, Some("unmap_event")} :
            MappedMem_new(p, n, uev, "buffer", "q_own")
    /\ future_event_callbacks \in BOOLEAN
    /\ debug_assertions \in BOOLEAN
    /\ MMObserversInit

\* One fixed region, for the runs that exercise the builder.
IdleMappedMem ==
    /\ MappedMem_new(4096, 0, None, "buffer", "q_own")
    /\ future_event_callbacks = FALSE
    /\ debug_assertions = FALSE
    /\ MMObserversInit

\* A builder as ProgramBuilder::new returns it.
ConstructedProgramBuilder ==
    /\ ProgramBuilder_new
    /\ pb_status = "live"
    /\ pb_ret = PbNoCall

\* A list as ContextProperties::new returns it.
ConstructedContextProperties ==
    /\ ContextProperties_new
    /\ cp_status = "live"
    /\ cp_ret = CpNoCall
    /\ last_set = [k \in SupportedKinds |-> None]

InitMappedMem ==
    ConstructedMappedMem /\ ConstructedProgramBuilder /\ ConstructedContextProperties
InitProgramBuilder ==
    IdleMappedMem /\ ConstructedProgramBuilder /\ ConstructedContextProperties
InitContextProperties ==
    IdleMappedMem /\ ConstructedProgramBuilder /\ ConstructedContextProperties

NextMappedMem ==
    \/ \E q_opt \in {None} \cup {Some(q) : q \in Queues},
          ewait, enew, enq_ok, val_ok, ret_ok, slot_ok, cb_ok \in BOOLEAN :
            /\ unmap(q_opt, ewait, enew, enq_ok, val_ok, ret_ok, slot_ok, cb_ok)
            /\ UNCHANGED <<pbvars, cpvars>>
    \/ mapped_mem_set_unmapped /\ UNCHANGED <<pbvars, cpvars>>
    \/ deref /\ UNCHANGED <<pbvars, cpvars>>
    \/ deref_mut /\ UNCHANGED <<pbvars, cpvars>>
    \/ \E enq_ok, val_ok, cb_ok \in BOOLEAN :
            drop(enq_ok, val_ok, cb_ok) /\ UNCHANGED <<pbvars, cpvars>>

NextProgramBuilder ==
    \/ \E name \in DefNames, val \in DefVals : cmplr_def(name, val) /\ UNCHANGED <<mmvars, cpvars>>
    \/ \E co \in CmplrOpts : cmplr_opt(co) /\ UNCHANGED <<mmvars, cpvars>>
    \/ \E option \in BuildOpts : bo(option) /\ UNCHANGED <<mmvars, cpvars>>
    \/ \E file_path \in Paths : src_file(file_path) /\ UNCHANGED <<mmvars, cpvars>>
    \/ \E text \in SrcTexts : src(text) /\ UNCHANGED <<mmvars, cpvars>>
    \/ \E ds \in DeviceSpecifiers : devices(ds) /\ UNCHANGED <<mmvars, cpvars>>
    \/ get_src_file_names /\ UNCHANGED <<mmvars, cpvars>>
    \/ call_get_src_strings /\ UNCHANGED <<mmvars, cpvars>>
    \/ call_get_compiler_options /\ UNCHANGED <<mmvars, cpvars>>
    \/ \E native_ok \in BOOLEAN : build(native_ok) /\ UNCHANGED <<mmvars, cpvars>>

NextContextProperties ==
    \/ \E x \in PlatformIds : set_platform(x) /\ UNCHANGED <<mmvars, pbvars>>
    \/ \E x \in PlatformIds : platform(x) /\ UNCHANGED <<mmvars, pbvars>>
    \/ \E b \in BOOLEAN : set_interop_user_sync(b) /\ UNCHANGED <<mmvars, pbvars>>
    \/ \E b \in BOOLEAN : interop_user_sync(b) /\ UNCHANGED <<mmvars, pbvars>>
    \/ \E x \in GlContexts : set_gl_context(x) /\ UNCHANGED <<mmvars, pbvars>>
    \/ \E x \in GlContexts : gl_context(x) /\ UNCHANGED <<mmvars, pbvars>>
    \/ \E x \in Sharegroups : set_cgl_sharegroup(x) /\ UNCHANGED <<mmvars, pbvars>>
    \/ \E x \in Sharegroups : cgl_sharegroup(x) /\ UNCHANGED <<mmvars, pbvars>>
    \/ \E prop \in PropertyValues :
            set_property_value(prop) /\ UNCHANGED <<mmvars, pbvars>>
    \/ \E prop \in PropertyValues : property_value(prop) /\ UNCHANGED <<mmvars, pbvars>>
    \/ get_platform /\ UNCHANGED <<mmvars, pbvars>>
    \/ get_cgl_sharegroup /\ UNCHANGED <<mmvars, pbvars>>
    \/ \E order \in IterationOrders(props) : to_raw(order) /\ UNCHANGED <<mmvars, pbvars>>

SpecContextProperties == InitContextProperties /\ [][NextContextProperties]_vars
SpecMappedMem == InitMappedMem /\ [][NextMappedMem]_vars
SpecProgramBuilder == InitProgramBuilder /\ [][NextProgramBuilder]_vars

(***************************************************************************)
(* Properties of MappedMem, checked under SpecMappedMem.                   *)
(***************************************************************************)
\* A step that is a call of unmap() by the region's owner.
UnmapCallStep == mm_calls' = mm_calls + 1

\* C1: once one unmap() call has returned Ok, every later unmap() call on the
\* region returns an error, does not call the native unmap enqueue again and
\* leaves the region unmapped.
C1_UnmapAfterUnmapRejected ==
    [][(mm_ok_unmaps > 0 /\ UnmapCallStep) =>
            /\ mm_ret'.op = "unmap"
            /\ mm_ret'.result = "err"
            /\ enqueue_calls' = enqueue_calls
            /\ is_unmapped /\ is_unmapped']_vars
C1_Witness ==
    /\ mm_ok_unmaps = 1
    /\ mm_calls >= 2
    /\ enqueue_oks = 1
    /\ mm_ret.op = "unmap" /\ mm_ret.result = "err"
    /\ mm_ret.err = "Already unmapped"

\* C2: deref / deref_mut panic in every state where is_unmapped is true and
\* return the view over [ptr, ptr + len) in every state where it is false; no
\* view is ever handed out once a native unmap has been enqueued.
C2_SliceAccessOnlyWhileMapped ==
    mm_ret.op \in {"deref", "deref_mut"} =>
        /\ (mm_ret.result = "panic") <=> is_unmapped
        /\ (mm_ret.result = "ok") <=> ~is_unmapped
        /\ mm_ret.result = "ok" =>
              /\ Len(mm_ret.view) = len
              /\ \A i \in 1..len : mm_ret.view[i] = ptr + i - 1
              /\ enqueue_oks = 0
C2_Witness ==
    /\ mm_ret.op = "deref_mut" /\ mm_ret.result = "panic"
    /\ enqueue_oks = 1
    /\ len = MaxLen

\* C3: is_unmapped is false right after construction and never goes from true
\* back to false, whatever is called on the region.
C3_UnmappedIsMonotonic ==
    /\ ~is_unmapped
    /\ [][is_unmapped => is_unmapped']_vars
C3_Witness ==
    /\ is_unmapped
    /\ mm_ret.op = "mapped_mem_set_unmapped"
    /\ mm_calls >= 2
    /\ enqueue_oks = 1

(***************************************************************************)
(* Properties of ProgramBuilder, checked under SpecProgramBuilder.         *)
(***************************************************************************)
\* What the properties below are stated with.
SrcStringsReturned == pb_ret.op = "get_src_strings" /\ pb_ret.result = "ok"
DistinctPaths == {src_files[i] : i \in 1..Len(src_files)}
Content(p) == FileSystem[p].bytes
HeadOptions == SelectSeq(options, LAMBDA o : o.kind \in {"IncludeDefine", "IncludeCore"})
EofOptions == SelectSeq(options, LAMBDA o : o.kind = "IncludeRawEof")
CmplrOptions ==
    SelectSeq(options, LAMBDA o : o.kind \in {"CmplrDefine", "CmplrInclDir", "CmplrOther"})
\* The blocks of the returned source that come from files: those after the
\* leading separator and the head directives, before the second separator.
FileBlocks(out) ==
    SubSeq(out, 2 + Len(HeadOptions), Len(out) - 1 - Len(EofOptions))
NoRepeats(seq) == \A i, j \in 1..Len(seq) : seq[i] = seq[j] => i = j

\* C4: with the files added in the order [A, B, C], get_src_strings() emits
\* C's content, then B's, then A's; and the content of each distinct path is
\* emitted exactly once, however often the path was added.
C4_FilesReversedOnce ==
    SrcStringsReturned =>
        LET blocks == FileBlocks(pb_ret.val)
        IN  /\ \A p \in DistinctPaths :
                  Cardinality({k \in 1..Len(blocks) : blocks[k] = Content(p)}) = 1
            /\ Len(blocks) = Cardinality(DistinctPaths)
            /\ NoRepeats(src_files) =>
                  \A k \in 1..Len(src_files) :
                      blocks[k] = Content(src_files[Len(src_files) + 1 - k])
C4_Witness ==
    /\ SrcStringsReturned
    /\ src_files = <<"a.cl", "b.cl", "c.cl">>
    /\ pb_ret.val = << <<10>>, Content("c.cl"), Content("b.cl"), Content("a.cl"), <<10>> >>

\* C5: in one pass of get_src_strings() (called directly or from build) no
\* path is opened twice and no path is read twice.
C5_EachPathReadOnce ==
    pb_ret.op \in {"get_src_strings", "build"} =>
        /\ NoRepeats(pb_ret.opened)
        /\ NoRepeats(pb_ret.read)
C5_Witness ==
    /\ SrcStringsReturned
    /\ src_files = <<"a.cl", "b.cl", "a.cl">>
    /\ pb_ret.opened = <<"a.cl", "b.cl">>
    /\ pb_ret.read = <<"a.cl", "b.cl">>

\* C6: the source returned by get_src_strings() is one separator, then the
\* IncludeDefine / IncludeCore directives in insertion order, then file
\* contents only, then one separator, then the IncludeRawEof directives in
\* insertion order, and nothing else.
C6_SourceLayout ==
    SrcStringsReturned =>
        LET out == pb_ret.val
            nh == Len(HeadOptions)
            ne == Len(EofOptions)
            nf == Len(out) - nh - ne - 2
        IN  /\ nf = Cardinality(DistinctPaths)
            /\ out[1] = <<10>>
            /\ \A k \in 1..nh :
                  out[1 + k] =
                      IF HeadOptions[k].kind = "IncludeDefine"
                          THEN <<35, 100, 101, 102, 105, 110, 101, 32>>
                               \o HeadOptions[k].ident \o <<32, 32>>
                               \o HeadOptions[k].val \o <<10>>
                          ELSE HeadOptions[k].val
            /\ \A k \in 1..nf : \E p \in DistinctPaths : out[1 + nh + k] = Content(p)
            /\ out[2 + nh + nf] = <<10>>
            /\ \A k \in 1..ne : out[2 + nh + nf + k] = EofOptions[k].val
C6_Witness ==
    /\ SrcStringsReturned
    /\ options = <<IncludeRawEof(<<101>>), IncludeCore(<<99>>)>>
    /\ src_files = <<"a.cl">>
    /\ pb_ret.val = << <<10>>, <<99>>, <<97>>, <<10>>, <<101>> >>

\* The tokens written one after the other, each preceded by a space.
RECURSIVE SpacedTokens(_)
SpacedTokens(opts) ==
    IF opts = <<>> THEN <<>>
    ELSE LET o == Head(opts)
             token == CASE o.kind = "CmplrDefine" -> <<45, 68>> \o o.ident \o <<61>> \o o.val
                        [] o.kind = "CmplrInclDir" -> <<45, 73>> \o o.val
                        [] o.kind = "CmplrOther" -> o.val
         IN  <<32>> \o token \o SpacedTokens(Tail(opts))

\* C7: get_compiler_options() returns a blank token followed by one token
\* per compiler directive (-D{name}={value}, -I{path}, or the raw text), in
\* insertion order and joined by spaces; the source directives add nothing.
C7_CompilerOptionsLayout ==
    (pb_ret.op = "get_compiler_options" /\ pb_ret.result = "ok") =>
        pb_ret.val = <<32>> \o SpacedTokens(CmplrOptions)
C7_Witness ==
    /\ pb_ret.op = "get_compiler_options" /\ pb_ret.result = "ok"
    /\ options = <<CmplrDefine(<<78>>, <<45, 49, 50>>), IncludeCore(<<99>>),
                   CmplrInclDir(<<100>>)>>
    /\ pb_ret.val = <<32, 32, 45, 68, 78, 61, 45, 49, 50, 32, 45, 73, 100>>

\* C8: build() on a builder with no device selector, or with a selector that
\* resolves to no device, fails with the 'no devices' error and does not
\* call the native build entry point.
C8_NoDevicesNoNativeBuild ==
    (/\ pb_ret.op = "build"
     /\ \/ is_none(device_spec)
        \/ /\ to_device_list(device_spec.v).ok
           /\ Len(to_device_list(device_spec.v).val) = 0) =>
        /\ pb_ret.result = "err"
        /\ pb_ret.err = "No devices found."
        /\ pb_ret.native = <<>>
        /\ pb_ret.program = None
C8_Witness ==
    /\ pb_ret.op = "build"
    /\ device_spec = Some([kind |-> "List", arg |-> <<>>])
    /\ src_files = <<"a.cl">>
    /\ pb_ret.err = "No devices found."

\* A step that is a call of devices() on the builder.
DevicesCallStep ==
    pb_ret'.op = "devices" /\ (pb_ret' /= pb_ret \/ device_spec' /= device_spec)

\* C9: a devices() call on a builder that already has a selector fails and
\* the selector set first stays: once set, the selector never changes.
C9_OneDeviceSelector ==
    [][/\ is_some(device_spec) => device_spec' = device_spec
       /\ (DevicesCallStep /\ is_some(device_spec)) =>
              pb_ret'.result = "panic" /\ pb_status' = "panicked"
       /\ (DevicesCallStep /\ is_none(device_spec)) =>
              pb_ret'.result = "ok" /\ is_some(device_spec')]_vars
C9_Witness ==
    /\ pb_status = "panicked"
    /\ pb_ret.op = "devices" /\ pb_ret.result = "panic"
    /\ device_spec = Some([kind |-> "All", arg |-> <<>>])

\* The builder names a file that cannot be opened or read, or holds a NUL
\* byte in a directive or in a file.
UnusableInput ==
    \/ \E i \in 1..Len(src_files) :
          \/ FileSystem[src_files[i]].kind /= "file"
          \/ contains_nul(Content(src_files[i]))
    \/ \E i \in 1..Len(options) :
          contains_nul(options[i].ident) \/ contains_nul(options[i].val)

\* C10: build() on such a builder returns an error and no Program, and does
\* not call the native build entry point.
C10_UnusableInputFailsBuild ==
    (pb_ret.op = "build" /\ UnusableInput) =>
        /\ pb_ret.result = "err"
        /\ pb_ret.program = None
        /\ pb_ret.native = <<>>
C10_Witness ==
    /\ pb_ret.op = "build"
    /\ device_spec = Some([kind |-> "All", arg |-> <<>>])
    /\ src_files = <<"a.cl", "dir">>
    /\ pb_ret.err = "read_to_end"

(***************************************************************************)
(* ContextProperties claims                                                *)
(***************************************************************************)
SetterOps == {"set_platform", "platform", "set_interop_user_sync", "interop_user_sync",
              "set_gl_context", "gl_context", "set_cgl_sharegroup", "cgl_sharegroup",
              "set_property_value", "property_value"}
UniqueKeys(map) == \A e1, e2 \in map : e1.key = e2.key => e1 = e2

\* C11: a set leaves the list with at most one value per property kind, the
\* kind that was set holds the value just supplied (an earlier value of that
\* kind is overwritten), and the values of all other kinds are as before.
C11_SetOverwritesOneKind ==
    [][(cp_ret'.op \in SetterOps /\ cp_ret'.result = "ok") =>
          /\ UniqueKeys(props')
          /\ get(props', cp_ret'.arg.key) = Some(cp_ret'.arg.value)
          /\ \A k \in SupportedKinds \ {cp_ret'.arg.key} : get(props', k) = get(props, k)
      ]_vars

\* A set that replaced a different value of its kind while other kinds were held.
C11_Witness ==
    /\ cp_ret.op = "set_platform"
    /\ is_some(cp_ret.old)
    /\ cp_ret.old.v /= cp_ret.arg.value
    /\ get(props, "Platform") = Some(cp_ret.arg.value)
    /\ Cardinality(props) = 4

KindWords(map) == {<<ContextProperty_as_isize(e.key),
                     IF e.value.variant = "InteropUserSync"
                         THEN bool_as_isize(e.value.flag) ELSE e.value.ptr>> : e \in map}

\* C12: to_raw() of a list of n entries returns 2n+1 words, the last one 0,
\* and every entry's kind word sits at an even (0-based) index followed by the
\* entry's value word.
C12_ToRawPacksEveryEntry ==
    cp_ret.op = "to_raw" =>
        LET n == Cardinality(props)
            raw == cp_ret.raw
        IN  /\ cp_ret.result = "ok"
            /\ Len(raw) = 2 * n + 1
            /\ raw[2 * n + 1] = 0
            /\ \A pair \in KindWords(props) :
                   \E i \in 1..n : raw[2 * i - 1] = pair[1] /\ raw[2 * i] = pair[2]

PlaceholderStored == \E e \in props : e.value.variant \in PlaceholderVariants

\* C13: set_property_value() with a variant outside the four supported ones
\* panics and inserts nothing, and no list ever stores a placeholder variant.
C13_UnsupportedVariantRejected ==
    /\ [](~PlaceholderStored)
    /\ [][(/\ cp_ret'.op \in {"set_property_value", "property_value"}
           /\ cp_ret'.arg.value.variant \in PlaceholderVariants)
          => (cp_ret'.result = "panic" /\ cp_status' = "panicked" /\ props' = props)
        ]_vars

\* The generic setter has panicked on a placeholder variant, on a non-empty list.
C13_Witness ==
    /\ cp_ret.op = "set_property_value"
    /\ cp_ret.arg.value.variant \in PlaceholderVariants
    /\ cp_ret.result = "panic"
    /\ props /= {}

LatestPayload(k) == IF is_some(last_set[k]) THEN Some(last_set[k].v.ptr) ELSE None

\* C14: each typed getter returns None when its key was never set and the
\* latest value set for the key otherwise; every stored variant matches its
\* key, so the getters never take their panic branch.
C14_GettersReturnLatest ==
    /\ \A e \in props : e.value.variant = e.key
    /\ cp_ret.op = "get_platform" =>
           cp_ret.result = "ok" /\ cp_ret.got = LatestPayload("Platform")
    /\ cp_ret.op = "get_cgl_sharegroup" =>
           cp_ret.result = "ok" /\ cp_ret.got = LatestPayload("CglSharegroupKhr")

\* get_cgl_sharegroup has returned a share group on a list that holds a
\* platform as well.
C14_Witness ==
    /\ cp_ret.op = "get_cgl_sharegroup"
    /\ cp_ret.got = Some(202)
    /\ is_some(get(props, "Platform"))

(***************************************************************************)
(* MappedMem claims: destruction and the steps of unmap                    *)
(***************************************************************************)
DropStep == mm_status = "live" /\ mm_status' /= "live" /\ mm_ret'.op = "drop"
NativeUntouched ==
    UNCHANGED <<enqueue_calls, enqueue_oks, last_enqueue, ev_refcount, retain_calls,
                callbacks, enew_slot>>

\* C15: dropping an unmapped region makes no native call and does not fail;
\* dropping a mapped region with the deferred-callback feature makes exactly
\* one unmap attempt, on the region's own queue, with no wait list and no
\* out-event slot, and never fails whatever the attempt returns; without the
\* feature it panics and attempts no unmap.
C15_DropUnmapsOrPanics ==
    [][DropStep =>
          IF is_unmapped
              THEN mm_status' = "dropped" /\ NativeUntouched
          ELSE IF future_event_callbacks
              THEN /\ mm_status' = "dropped"
                   /\ mm_ret'.result = "ok"
                   /\ enqueue_calls' = enqueue_calls + 1
                   /\ last_enqueue'.queue = queue
                   /\ ~last_enqueue'.wait
                   /\ UNCHANGED <<retain_calls, enew_slot>>
          ELSE mm_status' = "panicked" /\ NativeUntouched
      ]_vars

\* A mapped region was dropped with the feature, its one unmap attempt failed
\* at the enqueue, and the drop went through.
C15_Witness ==
    /\ mm_ret.op = "drop"
    /\ mm_status = "dropped"
    /\ future_event_callbacks
    /\ mm_ret.err = "enqueue_unmap_mem_object"
    /\ ~is_unmapped
    /\ last_enqueue.queue = queue

\* C17: a call of unmap on a mapped region leaves it unmapped exactly when
\* its native enqueue succeeded; a failed enqueue is returned as the error,
\* and a failure of a later step does not undo the flag.
C17_UnmappedIffEnqueued ==
    [][(UnmapCallStep /\ ~is_unmapped) =>
          /\ enqueue_calls' = enqueue_calls + 1
          /\ is_unmapped' <=> (enqueue_oks' = enqueue_oks + 1)
          /\ (enqueue_oks' = enqueue_oks) =>
                 (mm_ret'.result = "err" /\ mm_ret'.err = "enqueue_unmap_mem_object")
      ]_vars

\* unmap returned the error of retain_event, after a successful enqueue, and
\* the region is unmapped.
C17_Witness ==
    /\ mm_ret.op = "unmap"
    /\ mm_ret.result = "err"
    /\ mm_ret.err = "retain_event"
    /\ enqueue_oks = 1
    /\ is_unmapped

\* C18: unmap on a mapped region hands the native enqueue an event placeholder
\* exactly when the caller passed an out-event slot or the region has a
\* completion event; otherwise no event is made, retained, stored or given a
\* callback.
C18_EventRequestedWhenWanted ==
    [][(UnmapCallStep /\ ~is_unmapped) =>
          /\ last_enqueue'.event <=> (mm_ret'.enew \/ is_some(unmap_event))
          /\ ~last_enqueue'.event =>
                 UNCHANGED <<ev_refcount, retain_calls, enew_slot, callbacks>>
      ]_vars

\* unmap succeeded on a region without completion event and without out-event
\* slot: the enqueue was made with no event, and no event exists.
C18_Witness ==
    /\ mm_ret.op = "unmap"
    /\ mm_ret.result = "ok"
    /\ ~mm_ret.enew
    /\ is_none(unmap_event)
    /\ enqueue_oks = 1
    /\ ~last_enqueue.event
    /\ ev_refcount = 0

\* C19: after a successful unmap with an out-event slot the slot holds the
\* new event and retain_event was called exactly once; after a successful
\* unmap without a slot retain_event was never called.
C19_SlotHoldsRetainedEvent ==
    (mm_ret.op = "unmap" /\ mm_ret.result = "ok") =>
        IF mm_ret.enew
            THEN enew_slot = "new_event" /\ retain_calls = 1
            ELSE retain_calls = 0

\* C20: at most one completion callback is registered over the region's life,
\* callback_is_set tells whether it was, and register_event_trigger entered
\* with callback_is_set true registers nothing: it returns the error (or fails
\* its debug assertion first when the region has no completion event).
C20_TriggerRegisteredAtMostOnce ==
    /\ Len(callbacks) <= 1
    /\ callback_is_set <=> (Len(callbacks) = 1)
    /\ \A cb_ok \in BOOLEAN :
           register_event_trigger(TRUE, unmap_event, TRUE, cb_ok) \in
               IF debug_assertions /\ is_none(unmap_event)
                   THEN {"panic"} ELSE {"already_set"}

\* The trigger is registered and a later unmap call was turned away.
C20_Witness ==
    /\ callback_is_set
    /\ Len(callbacks) = 1
    /\ mm_ret.op = "unmap"
    /\ mm_ret.err = "Already unmapped"
    /\ mm_calls >= 2

(***************************************************************************)
(* ProgramBuilder claims: the file names reported                          *)
(***************************************************************************)
Elements(seq) == {seq[i] : i \in 1..Len(seq)}

\* C16: get_src_file_names() returns every file added with src_file().
C16_FileNamesListAddedFiles ==
    pb_ret.op = "get_src_file_names" => Elements(src_files) \subseteq Elements(pb_ret.val)

(***************************************************************************)
(* Claims on the completion trigger, the packed list, retries, duplicate   *)
(* paths, event ownership and the add operations                           *)
(***************************************************************************)
\* C21: with the deferred-callback feature, the debug assertion of
\* register_event_trigger never fires and a trigger is registered only for a
\* completion event given at construction, also when unmap is called with an
\* out-event slot on a region built without one.
C21_TriggerOnlyWithCompletionEvent ==
    /\ ~(mm_ret.result = "panic" /\ mm_ret.err = "debug_assert")
    /\ \A i \in 1..Len(callbacks) : is_some(callbacks[i].user_data)

\* C22: to_raw() never panics on a list built with the public setters, a
\* GlContextKhr entry included, and returns a pair per entry and the zero.
C22_ToRawAcceptsEverySetKind ==
    cp_ret.op = "to_raw" =>
        /\ cp_ret.result /= "panic"
        /\ cp_status = "live"
        /\ Len(cp_ret.raw) = 2 * Cardinality(props) + 1

\* C23: over the life of a region the native enqueue succeeds at most once,
\* and once it has succeeded no unmap call and no drop issues another
\* enqueue; before that, a failed enqueue may be followed by a new attempt.
C23_AtMostOneEnqueueSucceeds ==
    /\ [](enqueue_oks <= 1)
    /\ [][enqueue_oks = 1 => UNCHANGED <<enqueue_calls, enqueue_oks, last_enqueue>>]_vars

\* A first enqueue failed, a retry succeeded, a further unmap call was made
\* and the region was dropped: two enqueues in all.
C23_Witness ==
    /\ mm_status = "dropped"
    /\ mm_calls = 3
    /\ enqueue_calls = 2
    /\ enqueue_oks = 1

LastIndex(p) ==
    CHOOSE i \in 1..Len(src_files) :
        src_files[i] = p /\ \A j \in (i + 1)..Len(src_files) : src_files[j] /= p

\* C24: get_src_strings() emits each path once, at the place of its
\* last-added occurrence in the reverse pass: the emitted files are ordered
\* by decreasing last index, [A, B, A] gives A then B, [A, A, B] gives B
\* then A.
C24_DuplicateEmittedAtLastOccurrence ==
    SrcStringsReturned =>
        LET emitted == pb_ret.read
            blocks == FileBlocks(pb_ret.val)
        IN  /\ Len(blocks) = Len(emitted)
            /\ \A k \in 1..Len(emitted) : blocks[k] = Content(emitted[k])
            /\ Elements(emitted) = DistinctPaths
            /\ \A i, j \in 1..Len(emitted) :
                   i < j => LastIndex(emitted[i]) > LastIndex(emitted[j])
            /\ src_files = <<"a.cl", "b.cl", "a.cl">> => emitted = <<"a.cl", "b.cl">>
            /\ src_files = <<"a.cl", "a.cl", "b.cl">> => emitted = <<"b.cl", "a.cl">>

\* The files were added as [A, A, B] and the source holds B's content, then A's.
C24_Witness ==
    /\ SrcStringsReturned
    /\ src_files = <<"a.cl", "a.cl", "b.cl">>
    /\ FileBlocks(pb_ret.val) = <<Content("b.cl"), Content("a.cl")>>

\* C25: without the deferred-callback feature, after unmap() has returned the
\* new event's reference count is the number of handles that refer to it: 1
\* when the out-event slot was updated, 0 otherwise.
C25_RefcountMatchesHandles ==
    (~future_event_callbacks /\ mm_ret.op = "unmap") =>
        ev_refcount = IF enew_slot = "new_event" THEN 1 ELSE 0

AddStep == pb_ret' = PbNoCall /\ <<options, src_files>>' /= <<options, src_files>>
AppendsOne(old, new) == Len(new) = Len(old) + 1 /\ SubSeq(new, 1, Len(old)) = old

\* C26: an add operation appends one element to the end of its own list and
\* changes nothing else: a directive add leaves the file list and the device
\* selector alone, src_file leaves the directive list and the selector alone;
\* no add validates its argument or touches a file, so each one goes through
\* on every live builder.
C26_AddsTouchOnlyTheirList ==
    /\ [](CanAdd =>
            /\ \A co \in CmplrOpts : ENABLED cmplr_opt(co)
            /\ \A text \in SrcTexts : ENABLED src(text)
            /\ \A option \in BuildOpts : ENABLED bo(option)
            /\ \A name \in DefNames, val \in DefVals : ENABLED cmplr_def(name, val)
            /\ \A file_path \in Paths : ENABLED src_file(file_path))
    /\ [][AddStep =>
            /\ pb_status' = "live"
            /\ UNCHANGED <<device_spec, src_file_names>>
            /\ pb_ret'.opened = <<>> /\ pb_ret'.read = <<>>
            /\ \/ AppendsOne(options, options') /\ UNCHANGED src_files
               \/ AppendsOne(src_files, src_files') /\ UNCHANGED options
       ]_vars

\* A directive holding a NUL byte and a path that does not exist were added
\* after a first directive, with a selector in place, and nothing was read.
C26_Witness ==
    /\ pb_ret = PbNoCall
    /\ pb_status = "live"
    /\ Len(options) = 2
    /\ options[2] = BuildOpt_cmplr_opt(<<45, 0>>)
    /\ src_files = <<"missing.cl">>

====
